---- MODULE Spec2Model ----
(***************************************************************************)
(* Model of the gim editing core (internal/editor): the line buffer, the   *)
(* cursor, the modal key handling of HandleUserActions and the frame       *)
(* renderer of renderer.go.                                                *)
(*                                                                         *)
(* Strings are sequences of one-character strings; rows, columns and line  *)
(* numbers are 0-based as in the Go code, so line i of the buffer is       *)
(* dataBuffer[i + 1].  A Go run-time panic (index or slice bounds out of   *)
(* range) and os.Exit end the process: the variable proc records it and    *)
(* the fields keep the values they had when the process ended.             *)
(***************************************************************************)
EXTENDS Integers, Sequences, FiniteSets, TLC

\* ---------------------------------------------------------------- bounds
MaxLines == 3
MaxChars == 2
MaxWidth == 2
MaxHeight == 3

\* the runes typed in Insert mode
TextRunes == {"a", "b"}
\* the command lines typed in CommandLine mode, rune by rune; "q" is typed
\* after the leading ':' was deleted with Backspace
TypedCommands ==
    {<<":", "q">>, <<":", "q", "!">>, <<":", "w", "q">>, <<":", "x">>,
     <<":", "0">>, <<":", "2">>, <<":">> \o [k \in 1..19 |-> "9"], <<"q">>}

\* ------------------------------------------------------------- constants
MODE_NORMAL == "NORMAL"
MODE_INSERT == "INSERT"
MODE_COMMAND_LINE == "COMMAND_LINE"

KeyEnter == "KeyEnter"
KeyEscape == "KeyEscape"
KeyBackspace == "KeyBackspace"
KeyBackspace2 == "KeyBackspace2"
KeyLeft == "KeyLeft"
KeyRight == "KeyRight"
KeyUp == "KeyUp"
KeyDown == "KeyDown"
KeyRune == "KeyRune"
KeyF1 == "KeyF1"

\* the zero rune of a key without a character, and of an unwritten cell
NUL == "NUL"
\* the rune a terminal sends with the Backspace key (DEL)
DEL == "DEL"

E37 == "E37: No write since last change (add ! to override)"
INSERT_BANNER == "-- INSERT --"
\* "<file>" NL, NC   and   "<file>" [New File]
FILE_INFO == "\"f\" L, C"
NEW_FILE_INFO == "\"f\" [New File]"

RUNNING == "running"
EXITED == "exited"
PANICKED == "panicked"

\* --------------------------------------------------------------- helpers
Min(a, b) == IF a < b THEN a ELSE b
Max(a, b) == IF a < b THEN b ELSE a

\* s[lo:hi] of Go, 0-based, hi exclusive
Slice(s, lo, hi) == SubSeq(s, lo + 1, hi)

Blank(w) == [k \in 1..w |-> NUL]

\* a nil row of the frame
NilRow == <<>>

DigitRunes == {"0", "1", "2", "3", "4", "5", "6", "7", "8", "9"}

DigitVal(c) ==
    CASE c = "0" -> 0 [] c = "1" -> 1 [] c = "2" -> 2 [] c = "3" -> 3
      [] c = "4" -> 4 [] c = "5" -> 5 [] c = "6" -> 6 [] c = "7" -> 7
      [] c = "8" -> 8 [] c = "9" -> 9

RECURSIVE DigitsVal(_)
DigitsVal(s) ==
    IF s = <<>> THEN 0
    ELSE 10 * DigitsVal(SubSeq(s, 1, Len(s) - 1)) + DigitVal(s[Len(s)])

RECURSIVE StripZeros(_)
StripZeros(s) ==
    IF s # <<>> /\ Head(s) = "0" THEN StripZeros(Tail(s)) ELSE s

\* the digits of 1<<63 - 1, the largest int
MaxIntDigits ==
    <<"9", "2", "2", "3", "3", "7", "2", "0", "3", "6",
      "8", "5", "4", "7", "7", "5", "8", "0", "7">>

\* a > b for digit strings of the same length
DigitsGreater(a, b) ==
    \E k \in 1..Len(a) :
        /\ DigitVal(a[k]) > DigitVal(b[k])
        /\ \A j \in 1..(k - 1) : a[j] = b[j]

\* the value of the digits is above 1<<63 - 1 (below -(1<<63) - 1 when
\* negative: the magnitude 1<<63 itself is in range then)
OutOfRange(digits, negative) ==
    \/ Len(StripZeros(digits)) > Len(MaxIntDigits)
    \/ /\ Len(StripZeros(digits)) = Len(MaxIntDigits)
       /\ DigitsGreater(StripZeros(digits),
                        IF negative THEN [MaxIntDigits EXCEPT ![19] = "8"]
                        ELSE MaxIntDigits)

\* a value of more than 9 digits is represented by 10^9: runCommand only
\* compares the value with the line count and with 1
SaturatedVal(digits) ==
    IF Len(StripZeros(digits)) > 9 THEN 1000000000
    ELSE DigitsVal(StripZeros(digits))

\* strconv.Atoi: an optional sign followed by at least one digit, of a value
\* that fits an int (64 bits); ErrSyntax and ErrRange otherwise
Atoi(s) ==
    LET signed == s # <<>> /\ s[1] \in {"+", "-"}
        digits == IF signed THEN Tail(s) ELSE s
        negative == signed /\ s[1] = "-"
    IN  IF digits = <<>> \/ \E k \in 1..Len(digits) : digits[k] \notin DigitRunes
        THEN [err |-> TRUE, val |-> 0]
        ELSE IF OutOfRange(digits, negative)
        THEN [err |-> TRUE, val |-> 0]
        ELSE [err |-> FALSE,
              val |-> IF negative THEN 0 - SaturatedVal(digits)
                      ELSE SaturatedVal(digits)]

\* ---------------------------------------------------------------- events
Event(kind, value, rune) == [Kind |-> kind, Value |-> value, Rune |-> rune]

NoEvent == Event("NONE", "NONE", NUL)

\* ----------------------------------------------------------- the editor
\* F applied to the value of v: the value is computed once, however often F
\* uses it
Bind(v, F(_)) == CHOOSE r \in {F(x) : x \in {v}} : TRUE

getLinesCount(e) == Len(e.dataBuffer)

getCurrentLineLength(e) == Len(e.dataBuffer[e.cursorPos.Y + 1])

Panic(e) == [e EXCEPT !.proc = PANICKED]

\* ---------------------------------------------------------- renderer.go
\* the inner loop of fillTextFrameFromTop over the characters of one line
RECURSIVE FillLine(_, _, _, _, _, _)
FillLine(frame0, line, k, x, y, w) ==
    Bind(frame0, LAMBDA frame :
        IF k > Len(line) THEN [frame |-> frame, y |-> y, panic |-> FALSE]
        ELSE IF y >= Len(frame) THEN [frame |-> frame, y |-> y, panic |-> TRUE]
        ELSE FillLine(
                 [frame EXCEPT ![y + 1] =
                     [(IF @ = NilRow THEN Blank(w) ELSE @) EXCEPT ![x + 1] = line[k]]],
                 line, k + 1,
                 IF x + 1 = w THEN 0 ELSE x + 1,
                 IF x + 1 = w THEN y + 1 ELSE y, w))

\* the outer loop of fillTextFrameFromTop, from line i at physical row y
RECURSIVE FillFrom(_, _, _, _, _, _)
FillFrom(buf, frame, i, y, w, h) ==
    IF i >= Len(buf) THEN [frame |-> frame, last |-> i, panic |-> TRUE]
    ELSE Bind(FillLine(frame, buf[i + 1], 1, 0, y, w), LAMBDA r :
             IF r.panic THEN [frame |-> r.frame, last |-> i, panic |-> TRUE]
             ELSE IF i + 1 = Len(buf) \/ r.y = h - 2
             THEN [frame |-> r.frame, last |-> i, panic |-> FALSE]
             ELSE FillFrom(buf, r.frame, i + 1, r.y + 1, w, h))

\* the physical row y at which the outer loop of fillTextFrameFromTop starts
\* line i, the loop having started line first at row 0
RECURSIVE StartRow(_, _, _, _)
StartRow(buf, first, i, w) ==
    IF i <= first THEN 0
    ELSE StartRow(buf, first, i - 1, w) + (Len(buf[i]) \div w) + 1

fillTextFrameFromTop(e) ==
    FillFrom(e.dataBuffer, [k \in 1..(e.ScreenDim.Y - 1) |-> NilRow],
             e.firstLineInFrame, 0, e.ScreenDim.X, e.ScreenDim.Y)

\* the loop of fillEmptyLinesIfAnyWithTilde, i from len-1 down to 1
RECURSIVE TildeFrom(_, _, _, _)
TildeFrom(frame0, i, shouldTilde, w) ==
    Bind(frame0, LAMBDA frame :
        IF i <= 0 THEN frame
        ELSE IF frame[i + 1] # NilRow THEN TildeFrom(frame, i - 1, FALSE, w)
        ELSE TildeFrom(
                 [frame EXCEPT ![i + 1] =
                     IF shouldTilde THEN [Blank(w) EXCEPT ![1] = "~"]
                     ELSE Blank(w)],
                 i - 1, shouldTilde, w))

fillEmptyLinesIfAnyWithTilde(frame, w) ==
    TildeFrom(frame, Len(frame) - 1, TRUE, w)

\* syncTextFrame without its trailing syncCursor: renders, records
\* lastLineInFrame and hands the frame to the screen
DisplayTextFrame(e0) ==
    Bind(e0, LAMBDA e :
        IF e.proc # RUNNING THEN e
        ELSE Bind(fillTextFrameFromTop(e), LAMBDA r :
                 IF r.panic THEN Panic(e)
                 ELSE [e EXCEPT !.lastLineInFrame = r.last,
                                !.textFrame =
                                    fillEmptyLinesIfAnyWithTilde(r.frame, e.ScreenDim.X)]))

RECURSIVE WrapRowsBefore(_, _, _, _)
WrapRowsBefore(buf, i, y, w) ==
    IF i >= y THEN 0
    ELSE (Len(buf[i + 1]) \div w) + WrapRowsBefore(buf, i + 1, y, w)

RECURSIVE WrapCursor(_, _)
WrapCursor(pos0, w) ==
    Bind(pos0, LAMBDA pos :
        IF pos.X > w THEN WrapCursor([X |-> pos.X - w, Y |-> pos.Y + 1], w)
        ELSE pos)

\* the position syncCursor computes before it renders
CursorPosScreen(e) ==
    WrapCursor([X |-> e.cursorPos.X,
                Y |-> e.cursorPos.Y - e.firstLineInFrame
                      + WrapRowsBefore(e.dataBuffer, e.firstLineInFrame,
                                       e.cursorPos.Y, e.ScreenDim.X)],
               e.ScreenDim.X)

syncCursor(e0) ==
    Bind(e0, LAMBDA e :
        IF e.proc # RUNNING THEN e
        ELSE Bind(DisplayTextFrame(e), LAMBDA e2 :
                 IF e2.proc # RUNNING THEN e2
                 ELSE [e2 EXCEPT !.cursorPosScreen = CursorPosScreen(e)]))

syncTextFrame(e, dontSyncCursor) ==
    IF dontSyncCursor THEN DisplayTextFrame(e)
    ELSE syncCursor(DisplayTextFrame(e))

\* syncStatusBar paints statusMessage, or currentCommand when the message is
\* empty, on the reserved row; it changes no field of the editor
syncStatusBar(e) == e

\* ------------------------------------------------------------ editor.go
RECURSIVE AdvanceFirst(_, _, _, _)
AdvanceFirst(buf, i, first, w) ==
    IF i >= first
    THEN AdvanceFirst(buf, i - 1, first + (Len(buf[i + 1]) \div w), w)
    ELSE first

RECURSIVE fixVerticalCursorOverflow(_)
fixVerticalCursorOverflow(e0) ==
    Bind(e0, LAMBDA e :
        IF e.proc # RUNNING THEN e
        ELSE IF e.cursorPos.Y > e.lastLineInFrame
        THEN IF e.lastLineInFrame + 1 >= getLinesCount(e) THEN e
             ELSE fixVerticalCursorOverflow(
                      [e EXCEPT
                         !.lastLineInFrame = @ + 1,
                         !.firstLineInFrame =
                             AdvanceFirst(e.dataBuffer, e.lastLineInFrame + 1,
                                 IF e.lastLineInFrame + 1 - @ > e.ScreenDim.Y - 2
                                 THEN @ + 1 ELSE @,
                                 e.ScreenDim.X)])
        ELSE e)

\* a bound that lets the column reach the line length in every mode
RangeXAnyMode(m, len) == len

\* the bound of the column on a line of length len
RangeX(m, len) ==
    IF m # MODE_INSERT THEN (IF len - 1 < 0 THEN 0 ELSE len - 1) ELSE len

fixHorizontalCursorOverflow(e0) ==
    Bind(e0, LAMBDA e :
        IF e.proc # RUNNING THEN e
        ELSE IF RangeX(e.currentMode, getCurrentLineLength(e)) < e.cursorPos.X
        THEN [e EXCEPT !.cursorPos.X = RangeX(e.currentMode, getCurrentLineLength(e))]
        ELSE e)

\* the KeyUp case after the row and the column are set: the window follows
ScrollUp(e0) ==
    Bind(e0, LAMBDA e :
        IF e.cursorPos.Y < e.firstLineInFrame
        THEN [e EXCEPT !.firstLineInFrame = @ - 1,
                       !.lastLineInFrame =
                           IF @ - (e.firstLineInFrame - 1) > e.ScreenDim.Y - 1
                           THEN @ - 1 ELSE @]
        ELSE e)

\* returns the editor and isProcessed
handleTextAreaCursorMovement(e, event) ==
    CASE event.Value = KeyLeft ->
           [e |-> IF e.cursorPos.X # 0
                  THEN syncCursor([e EXCEPT !.cursorPos.X = @ - 1])
                  ELSE e,
            isProcessed |-> TRUE]
      [] event.Value = KeyRight ->
           [e |-> syncCursor(fixHorizontalCursorOverflow(
                      [e EXCEPT !.cursorPos.X = @ + 1])),
            isProcessed |-> TRUE]
      [] event.Value = KeyDown ->
           [e |-> IF e.cursorPos.Y + 1 # getLinesCount(e)
                  THEN syncCursor(fixVerticalCursorOverflow(
                           fixHorizontalCursorOverflow(
                               [e EXCEPT !.cursorPos.Y = @ + 1])))
                  ELSE e,
            isProcessed |-> TRUE]
      [] event.Value = KeyUp ->
           [e |-> IF e.cursorPos.Y # 0
                  THEN syncCursor(ScrollUp(fixHorizontalCursorOverflow(
                           [e EXCEPT !.cursorPos.Y = @ - 1])))
                  ELSE e,
            isProcessed |-> TRUE]
      [] OTHER -> [e |-> e, isProcessed |-> FALSE]

\* a quit that refuses whenever the buffer is dirty, forced or not
quitIgnoringForce(e, force) ==
    IF e.isDirty THEN [e EXCEPT !.statusMessage = E37]
    ELSE [e EXCEPT !.proc = EXITED]

quit(e, force) ==
    IF e.isDirty /\ ~force THEN [e EXCEPT !.statusMessage = E37]
    ELSE [e EXCEPT !.proc = EXITED]

\* fs.WriteLinesToFile: writeOk is the outcome of the storage layer
WriteLinesToFile(e, writeOk) ==
    [e EXCEPT !.writeResult = IF writeOk THEN "success" ELSE "IOError"]

\* lineNum clamped to [1, count]
ClampLine(lineNum, count) ==
    IF (IF lineNum > count THEN count ELSE lineNum) < 1 THEN 1
    ELSE (IF lineNum > count THEN count ELSE lineNum)

\* the body of runCommand up to the reset of the command line
ExecCommand(e, cmd, writeOk) ==
    Bind(Atoi(cmd), LAMBDA n :
        IF ~n.err
        THEN syncTextFrame(fixVerticalCursorOverflow(
                 [e EXCEPT !.cursorPos.Y = ClampLine(n.val, getLinesCount(e)) - 1]),
                 FALSE)
        ELSE CASE cmd = <<"q">> -> quit(e, FALSE)
               [] cmd = <<"q", "!">> -> quit(e, TRUE)
               [] cmd \in {<<"w", "q">>, <<"x">>} ->
                    [(IF e.isDirty THEN WriteLinesToFile(e, writeOk) ELSE e)
                       EXCEPT !.proc = EXITED]
               [] OTHER -> e)

runCommand(e, cmdFull, writeOk) ==
    IF cmdFull = <<>> THEN Panic(e)
    ELSE Bind(ExecCommand(e, Tail(cmdFull), writeOk), LAMBDA e1 :
             IF e1.proc # RUNNING THEN e1
             ELSE [syncStatusBar([e1 EXCEPT !.currentCommand = <<>>])
                     EXCEPT !.currentMode = MODE_NORMAL])

\* a switch that shows the banner and leaves the mode as it is
switchBannerOnly(e) ==
    syncStatusBar([e EXCEPT !.statusMessage = INSERT_BANNER])

switchToInsertMode(e) ==
    syncStatusBar([e EXCEPT !.currentMode = MODE_INSERT,
                            !.statusMessage = INSERT_BANNER])

handleKeyCommandLineMode(e0, event) ==
    Bind(e0, LAMBDA e :
        IF e.proc # RUNNING THEN e
        ELSE IF event.Rune = NUL \/ event.Value = KeyEnter THEN e
        ELSE IF event.Value \in {KeyBackspace, KeyBackspace2}
        THEN IF Len(e.currentCommand) = 0 THEN Panic(e)
             ELSE syncStatusBar([e EXCEPT !.currentCommand =
                                     Slice(@, 0, Len(@) - 1)])
        ELSE syncStatusBar([e EXCEPT !.currentCommand = Append(@, event.Rune)]))

handleKeyNormalMode(e, event) ==
    CASE event.Rune = ":" ->
           handleKeyCommandLineMode(
               [e EXCEPT !.currentMode = MODE_COMMAND_LINE,
                         !.statusMessage = ""], event)
      [] event.Rune = "i" -> switchToInsertMode(e)
      [] event.Rune = "A" ->
           syncCursor(switchToInsertMode(
               [e EXCEPT !.cursorPos.X = getCurrentLineLength(e)]))
      [] event.Rune = "G" ->
           syncTextFrame(fixVerticalCursorOverflow(
               [e EXCEPT !.cursorPos.Y =
                   IF getLinesCount(e) - 1 < 0 THEN 0 ELSE getLinesCount(e) - 1]),
               FALSE)
      [] OTHER -> e

\* the loop  for i := len(newBuffer)-1; i > Y; i-- { newBuffer[i] = newBuffer[i-1] }
RECURSIVE ShiftDown(_, _, _)
ShiftDown(newBuffer, i, y) ==
    IF i > y
    THEN ShiftDown([newBuffer EXCEPT ![i + 1] = newBuffer[i]], i - 1, y)
    ELSE newBuffer

\* newBuffer after the copy and the shift
CopyAndShift(buf, y) ==
    IF y < Len(buf) - 1
    THEN ShiftDown(Append(buf, <<>>), Len(buf), y)
    ELSE Append(buf, <<>>)

\* the Enter case of handleKeyInsertMode, up to e.dataBuffer = newBuffer
SplitLine(buf, x, y) ==
    IF x < Len(buf[y + 1])
    THEN [CopyAndShift(buf, y) EXCEPT
             ![y + 1] = Slice(buf[y + 1], 0, x),
             ![y + 2] = Slice(buf[y + 1], x, Len(buf[y + 1]))]
    ELSE CopyAndShift(buf, y)

\* a merge that drops the previous line together with the current one
MergeDropsPrevious(buf, y) ==
    [j \in 1..(Len(buf) - 2) |-> IF j < y THEN buf[j] ELSE buf[j + 2]]

\* a merge that puts the current line in front of the previous one
MergeSwapped(buf, y) ==
    [j \in 1..(Len(buf) - 1) |->
        IF j - 1 < y - 1 THEN buf[j]
        ELSE IF j - 1 = y - 1 THEN buf[y + 1] \o buf[y]
        ELSE buf[j + 1]]

\* the loop that builds newBuffer in the Backspace case at column 0
MergeWithPrevious(buf, y) ==
    [j \in 1..(Len(buf) - 1) |->
        IF j - 1 < y - 1 THEN buf[j]
        ELSE IF j - 1 = y - 1 THEN buf[y] \o buf[y + 1]
        ELSE buf[j + 1]]

\* line[:x-1] + line[x:]
DeleteBefore(line, x) == Slice(line, 0, x - 1) \o Slice(line, x, Len(line))

\* an insertion that appends the rune: line[:x] + line[x:] + string(rune)
InsertAtEnd(line, x, rune) == Slice(line, 0, x) \o Slice(line, x, Len(line)) \o <<rune>>

\* line[:x] + string(rune) + line[x:]
InsertAt(line, x, rune) == Slice(line, 0, x) \o <<rune>> \o Slice(line, x, Len(line))

\* handleKeyInsertMode after e.isDirty = true, with the cursor at (x, y)
InsertModeKey(e, event, x, y) ==
    CASE event.Value = KeyEnter ->
           syncTextFrame(fixVerticalCursorOverflow(
               [e EXCEPT !.dataBuffer = SplitLine(e.dataBuffer, x, y),
                         !.cursorPos = [X |-> 0, Y |-> y + 1]]), FALSE)
      [] event.Value \in {KeyBackspace, KeyBackspace2} ->
           IF x = 0 /\ y = 0 THEN e
           ELSE IF x > 0
           THEN IF x > Len(e.dataBuffer[y + 1]) THEN Panic(e)
                ELSE syncTextFrame(
                         [e EXCEPT !.dataBuffer[y + 1] = DeleteBefore(@, x),
                                   !.cursorPos.X = x - 1], FALSE)
           ELSE syncTextFrame(
                    [e EXCEPT !.dataBuffer = MergeWithPrevious(e.dataBuffer, y),
                              !.cursorPos = [X |-> Len(e.dataBuffer[y]),
                                             Y |-> y - 1]], FALSE)
      [] OTHER ->
           IF event.Rune = NUL THEN e
           ELSE IF x > Len(e.dataBuffer[y + 1]) THEN Panic(e)
           ELSE syncTextFrame(
                    [e EXCEPT !.dataBuffer[y + 1] = InsertAt(@, x, event.Rune),
                              !.cursorPos.X = x + 1], FALSE)

\* a handler that edits without setting isDirty
handleKeyInsertModeUnflagged(e, event) ==
    InsertModeKey(e, event, e.cursorPos.X, e.cursorPos.Y)

handleKeyInsertMode(e, event) ==
    InsertModeKey([e EXCEPT !.isDirty = TRUE], event, e.cursorPos.X, e.cursorPos.Y)

\* one iteration of the loop of HandleUserActions
HandleUserActions(e, event, writeOk) ==
    IF event.Kind # "KEY_PRESS" THEN e
    ELSE CASE e.currentMode = MODE_INSERT ->
                IF event.Value = KeyEscape
                THEN syncCursor(fixHorizontalCursorOverflow(syncStatusBar(
                         [e EXCEPT !.currentMode = MODE_NORMAL,
                                   !.statusMessage = ""])))
                ELSE Bind(handleTextAreaCursorMovement(e, event), LAMBDA m :
                         IF m.isProcessed THEN syncCursor(m.e)
                         ELSE handleKeyInsertMode(e, event))
           [] e.currentMode = MODE_NORMAL ->
                Bind(handleTextAreaCursorMovement(e, event), LAMBDA m :
                    IF m.isProcessed THEN syncCursor(m.e)
                    ELSE handleKeyNormalMode(e, event))
           [] e.currentMode = MODE_COMMAND_LINE ->
                IF event.Value = KeyEscape
                THEN syncStatusBar([e EXCEPT !.currentMode = MODE_NORMAL,
                                             !.currentCommand = <<>>])
                ELSE handleKeyCommandLineMode(
                         IF event.Value = KeyEnter
                         THEN runCommand(e, e.currentCommand, writeOk)
                         ELSE e, event)

\* ------------------------------------------------------------ the state
\* The fields of Editor that the handlers read.  lastUpDownCursorMovement and
\* startLine are written but never read, and fileName never changes.
VARIABLES currentMode, statusMessage, dataBuffer, cursorPos, currentCommand,
          firstLineInFrame, lastLineInFrame,
          isDirty, ScreenDim, textFrame, cursorPosScreen, writeResult, proc,
          lastEvent

\* A call of Theme.ResolveGroup: the receiver t, the argument name, the
\* locals cur and visited, the position in the function (pcResolve) and the
\* returned pair; visits lists the names in the order they were marked.
VARIABLES t, name, cur, visited, visits, pcResolve, resolved

editorVars ==
    <<currentMode, statusMessage, dataBuffer, cursorPos, currentCommand,
      firstLineInFrame, lastLineInFrame,
      isDirty, ScreenDim, textFrame, cursorPosScreen, writeResult, proc,
      lastEvent>>

themeVars == <<t, name, cur, visited, visits, pcResolve, resolved>>

vars == <<editorVars, themeVars>>

\* the nil *Theme, and the name and the pair of a call not yet made
NilTheme == [isNil |-> TRUE, Groups |-> <<>>, Links |-> <<>>]
NoName == 0
NoResult == [hl |-> "none", ok |-> FALSE]

\* no call of ResolveGroup is in progress
ThemeIdle ==
    /\ t = NilTheme
    /\ name = NoName
    /\ cur = NoName
    /\ visited = {}
    /\ visits = <<>>
    /\ pcResolve = "idle"
    /\ resolved = NoResult

\* the Editor value, with the screen and the process state it runs in
Ed == [currentMode |-> currentMode, statusMessage |-> statusMessage,
       dataBuffer |-> dataBuffer, cursorPos |-> cursorPos,
       currentCommand |-> currentCommand,
       firstLineInFrame |-> firstLineInFrame,
       lastLineInFrame |-> lastLineInFrame, isDirty |-> isDirty,
       ScreenDim |-> ScreenDim, textFrame |-> textFrame,
       cursorPosScreen |-> cursorPosScreen, writeResult |-> writeResult,
       proc |-> proc]

RECURSIVE CountChars(_)
CountChars(buf) ==
    IF buf = <<>> THEN 0 ELSE Len(Head(buf)) + CountChars(Tail(buf))

\* the buffers the model explores: at most MaxLines lines and MaxChars
\* characters in all
InBounds(buf) == Len(buf) <= MaxLines /\ CountChars(buf) <= MaxChars

Lines == UNION {[1..n -> TextRunes] : n \in 0..MaxChars}
Buffers == {b \in UNION {[1..n -> Lines] : n \in 1..MaxLines} : InBounds(b)}

\* NewEditor: loaded is FALSE when fs.ReadFileToLines fails
NewEditor(lines, loaded, w, h) ==
    syncStatusBar(syncTextFrame(
        [currentMode |-> MODE_NORMAL,
         statusMessage |-> IF loaded THEN FILE_INFO ELSE NEW_FILE_INFO,
         dataBuffer |-> IF loaded THEN lines ELSE <<<<>>>>,
         cursorPos |-> [X |-> 0, Y |-> 0],
         currentCommand |-> <<>>,
         firstLineInFrame |-> 0,
         lastLineInFrame |-> 0,
         isDirty |-> FALSE,
         ScreenDim |-> [X |-> w, Y |-> h],
         textFrame |-> <<>>,
         cursorPosScreen |-> [X |-> 0, Y |-> 0],
         writeResult |-> "none",
         proc |-> RUNNING], FALSE))

IsEditor(e) ==
    /\ currentMode = e.currentMode
    /\ statusMessage = e.statusMessage
    /\ dataBuffer = e.dataBuffer
    /\ cursorPos = e.cursorPos
    /\ currentCommand = e.currentCommand
    /\ firstLineInFrame = e.firstLineInFrame
    /\ lastLineInFrame = e.lastLineInFrame
    /\ isDirty = e.isDirty
    /\ ScreenDim = e.ScreenDim
    /\ textFrame = e.textFrame
    /\ cursorPosScreen = e.cursorPosScreen
    /\ writeResult = e.writeResult
    /\ proc = e.proc

\* the state after a construction that did not panic
Init ==
    /\ \E w \in 1..MaxWidth, h \in 2..MaxHeight, loaded \in BOOLEAN :
         \E lines \in (IF loaded THEN Buffers ELSE {<<<<>>>>}) :
            \E e \in {NewEditor(lines, loaded, w, h)} :
               e.proc = RUNNING /\ IsEditor(e)
    /\ lastEvent = NoEvent
    /\ ThemeIdle

\* the loop of HandleUserActions takes event from the channel
Handle(event, writeOk) ==
    /\ proc = RUNNING
    /\ \E e0 \in {Ed} : \E e \in {HandleUserActions(e0, event, writeOk)} :
           /\ InBounds(e.dataBuffer)
           /\ currentMode' = e.currentMode
           /\ statusMessage' = e.statusMessage
           /\ dataBuffer' = e.dataBuffer
           /\ cursorPos' = e.cursorPos
           /\ currentCommand' = e.currentCommand
           /\ firstLineInFrame' = e.firstLineInFrame
           /\ lastLineInFrame' = e.lastLineInFrame
           /\ isDirty' = e.isDirty
           /\ ScreenDim' = e.ScreenDim
           /\ textFrame' = e.textFrame
           /\ cursorPosScreen' = e.cursorPosScreen
           /\ writeResult' = e.writeResult
           /\ proc' = e.proc
    /\ lastEvent' = event
    /\ UNCHANGED themeVars

CommandPrefixes ==
    UNION {{SubSeq(c, 1, n) : n \in 1..Len(c)} : c \in TypedCommands}

KeyPress(value, rune) == Event("KEY_PRESS", value, rune)

ArrowKeys == {KeyLeft, KeyRight, KeyUp, KeyDown}

\* an event that is not a key press (a resize)
NonKeyPress == Handle(Event("RESIZE", "NONE", NUL), TRUE)

InsertEscape ==
    /\ currentMode = MODE_INSERT
    /\ Handle(KeyPress(KeyEscape, NUL), TRUE)

TextAreaCursorMovement ==
    /\ currentMode \in {MODE_INSERT, MODE_NORMAL}
    /\ \E k \in ArrowKeys : Handle(KeyPress(k, NUL), TRUE)

InsertEnter ==
    /\ currentMode = MODE_INSERT
    /\ Handle(KeyPress(KeyEnter, NUL), TRUE)

InsertBackspace ==
    /\ currentMode = MODE_INSERT
    /\ Handle(KeyPress(KeyBackspace2, DEL), TRUE)

InsertRune ==
    /\ currentMode = MODE_INSERT
    /\ \E r \in TextRunes : Handle(KeyPress(KeyRune, r), TRUE)

\* a key without a character that no case handles
InsertOtherKey ==
    /\ currentMode = MODE_INSERT
    /\ Handle(KeyPress(KeyF1, NUL), TRUE)

NormalRunes == {":", "i", "A", "G"}

NormalRune ==
    /\ currentMode = MODE_NORMAL
    /\ \E r \in NormalRunes : Handle(KeyPress(KeyRune, r), TRUE)

NormalOtherKey ==
    /\ currentMode = MODE_NORMAL
    /\ Handle(KeyPress(KeyEscape, NUL), TRUE)

CommandLineEscape ==
    /\ currentMode = MODE_COMMAND_LINE
    /\ Handle(KeyPress(KeyEscape, NUL), TRUE)

CommandLineEnter ==
    /\ currentMode = MODE_COMMAND_LINE
    /\ \E writeOk \in BOOLEAN :
          /\ writeOk \/ (isDirty /\ currentCommand \in {<<":", "w", "q">>, <<":", "x">>})
          /\ Handle(KeyPress(KeyEnter, NUL), writeOk)

CommandLineBackspace ==
    /\ currentMode = MODE_COMMAND_LINE
    /\ \E r \in {NUL, DEL} : Handle(KeyPress(KeyBackspace2, r), TRUE)

CommandRunes == UNION {{c[k] : k \in 1..Len(c)} : c \in TypedCommands} \ {":"}

CommandLineRune ==
    /\ currentMode = MODE_COMMAND_LINE
    /\ \E r \in CommandRunes :
          /\ Append(currentCommand, r) \in CommandPrefixes
          /\ Handle(KeyPress(KeyRune, r), TRUE)

Next ==
    \/ NonKeyPress
    \/ InsertEscape
    \/ TextAreaCursorMovement
    \/ InsertEnter
    \/ InsertBackspace
    \/ InsertRune
    \/ InsertOtherKey
    \/ NormalRune
    \/ NormalOtherKey
    \/ CommandLineEscape
    \/ CommandLineEnter
    \/ CommandLineBackspace
    \/ CommandLineRune

Spec == Init /\ [][Next]_vars

\* -------------------------------------------------------------- theme.go
\* the group names a colorscheme mentions, numbered, and the styles it gives
MaxNames == 3
Names == 1..MaxNames
Styles == {"bold", "plain"}

\* a map[string]V over the names: a function on the keys present
MapsTo(V) == UNION {[K -> V] : K \in SUBSET Names}

\* the Theme values: Groups and Links as ParseVimColorscheme may leave them,
\* self-links and link cycles included
Themes ==
    {[isNil |-> FALSE, Groups |-> g, Links |-> l] :
        g \in MapsTo(Styles), l \in MapsTo(Names)}

\* the state in which a call ResolveGroup(name) on t is about to run
ThemeInit ==
    /\ \E e \in {NewEditor(<<<<>>>>, FALSE, 1, 2)} : IsEditor(e)
    /\ lastEvent = NoEvent
    /\ t \in Themes \cup {NilTheme}
    /\ name \in Names
    /\ cur = NoName
    /\ visited = {}
    /\ visits = <<>>
    /\ pcResolve = "idle"
    /\ resolved = NoResult

\* the entry of ResolveGroup: the nil test, visited and cur
ResolveEntry ==
    /\ pcResolve = "idle"
    /\ IF t.isNil
       THEN /\ resolved' = [hl |-> "zero", ok |-> FALSE]
            /\ pcResolve' = "returned"
            /\ UNCHANGED <<cur, visited>>
       ELSE /\ visited' = {}
            /\ cur' = name
            /\ pcResolve' = "loop"
            /\ UNCHANGED resolved
    /\ UNCHANGED <<t, name, visits, editorVars>>

\* an iteration that follows the link of cur before it looks cur up in Groups
ResolveLinkFirst ==
    /\ pcResolve = "loop"
    /\ IF cur \in visited
       THEN /\ resolved' = [hl |-> "zero", ok |-> FALSE]
            /\ pcResolve' = "returned"
            /\ UNCHANGED <<cur, visited, visits>>
       ELSE /\ visited' = visited \cup {cur}
            /\ visits' = Append(visits, cur)
            /\ IF cur \in DOMAIN t.Links
               THEN /\ cur' = t.Links[cur]
                    /\ UNCHANGED <<resolved, pcResolve>>
               ELSE IF cur \in DOMAIN t.Groups
               THEN /\ resolved' = [hl |-> t.Groups[cur], ok |-> TRUE]
                    /\ pcResolve' = "returned"
                    /\ UNCHANGED cur
               ELSE /\ resolved' = [hl |-> "zero", ok |-> FALSE]
                    /\ pcResolve' = "returned"
                    /\ UNCHANGED cur
    /\ UNCHANGED <<t, name, editorVars>>

\* one iteration of the for loop of ResolveGroup
ResolveIteration ==
    /\ pcResolve = "loop"
    /\ IF cur \in visited
       THEN /\ resolved' = [hl |-> "zero", ok |-> FALSE]
            /\ pcResolve' = "returned"
            /\ UNCHANGED <<cur, visited, visits>>
       ELSE /\ visited' = visited \cup {cur}
            /\ visits' = Append(visits, cur)
            /\ IF cur \in DOMAIN t.Groups
               THEN /\ resolved' = [hl |-> t.Groups[cur], ok |-> TRUE]
                    /\ pcResolve' = "returned"
                    /\ UNCHANGED cur
               ELSE IF cur \notin DOMAIN t.Links
               THEN /\ resolved' = [hl |-> "zero", ok |-> FALSE]
                    /\ pcResolve' = "returned"
                    /\ UNCHANGED cur
               ELSE /\ cur' = t.Links[cur]
                    /\ UNCHANGED <<resolved, pcResolve>>
    /\ UNCHANGED <<t, name, editorVars>>

ThemeNext ==
    \/ ResolveEntry
    \/ ResolveIteration

\* a call that runs is not suspended for ever: the loop is sequential code
ThemeSpec ==
    ThemeInit /\ [][ThemeNext]_vars /\ WF_vars(ResolveEntry) /\ WF_vars(ResolveIteration)

\* ------------------------------------------------------------ properties
TypeOK ==
    /\ currentMode \in {MODE_NORMAL, MODE_INSERT, MODE_COMMAND_LINE}
    /\ proc \in {RUNNING, EXITED, PANICKED}
    /\ cursorPos.X \in Nat /\ cursorPos.Y \in Nat
    /\ isDirty \in BOOLEAN

\* the last event was handled to the end: no panic, no exit
FullyProcessed == proc = RUNNING

LineCount == Len(dataBuffer)
CurrentLine == dataBuffer[cursorPos.Y + 1]

IsBackspace(ev) ==
    ev.Kind = "KEY_PRESS" /\ ev.Value \in {KeyBackspace, KeyBackspace2}
IsEnter(ev) == ev.Kind = "KEY_PRESS" /\ ev.Value = KeyEnter
IsRune(ev) == ev.Kind = "KEY_PRESS" /\ ev.Value = KeyRune

\* C1: after every fully processed key event the window brackets the cursor
\* row: firstLineInFrame <= cursorPos.Y <= lastLineInFrame <= lineCount-1.
C1_WindowBracketsCursor ==
    FullyProcessed =>
        /\ firstLineInFrame <= cursorPos.Y
        /\ cursorPos.Y <= lastLineInFrame
        /\ lastLineInFrame <= LineCount - 1

\* C2: after every fully processed key event the cursor column is at most
\* the line length in Insert mode and at most max(0, length-1) in Normal and
\* CommandLine mode.
C2_ColumnWithinModeBound ==
    FullyProcessed =>
        /\ 0 <= cursorPos.X
        /\ currentMode = MODE_INSERT => cursorPos.X <= Len(CurrentLine)
        /\ currentMode # MODE_INSERT =>
               cursorPos.X <= Max(0, Len(CurrentLine) - 1)

BackspaceAtOrigin ==
    /\ currentMode = MODE_INSERT
    /\ cursorPos = [X |-> 0, Y |-> 0]
    /\ IsBackspace(lastEvent')

\* C3: the buffer always has at least one line, and Backspace in Insert mode
\* at row 0, column 0 leaves the buffer as it was.
C3_AtLeastOneLine ==
    /\ [](Len(dataBuffer) >= 1)
    /\ [][BackspaceAtOrigin => dataBuffer' = dataBuffer]_vars

\* C3 witness: Backspace was handled in Insert mode and left a buffer of
\* MaxLines lines and MaxChars characters with the cursor at (0, 0); a merge
\* would have left fewer lines and a deletion fewer characters, so the key
\* was pressed at (0, 0).
C3_Witness ==
    /\ FullyProcessed
    /\ currentMode = MODE_INSERT
    /\ IsBackspace(lastEvent)
    /\ cursorPos = [X |-> 0, Y |-> 0]
    /\ Len(dataBuffer) = MaxLines
    /\ CountChars(dataBuffer) = MaxChars

\* the buffer that splitting line y at column x must give
SplitExpected(buf, x, y) ==
    SubSeq(buf, 1, y)
      \o <<SubSeq(buf[y + 1], 1, x), SubSeq(buf[y + 1], x + 1, Len(buf[y + 1]))>>
      \o SubSeq(buf, y + 2, Len(buf))

EnterInInsert ==
    /\ currentMode = MODE_INSERT
    /\ cursorPos.X <= Len(CurrentLine)
    /\ IsEnter(lastEvent')

\* C4: Enter in Insert mode at (row, column), column <= line length, splits
\* the line: line[row] keeps the first column characters, line[row+1] is the
\* remainder (empty at the end of the line), the other lines keep their
\* content and order, and the cursor ends at (row+1, 0).
C4_EnterSplitsLine ==
    [][EnterInInsert =>
          /\ dataBuffer' = SplitExpected(dataBuffer, cursorPos.X, cursorPos.Y)
          /\ cursorPos' = [X |-> 0, Y |-> cursorPos.Y + 1]]_vars

EnterEvent == Event("KEY_PRESS", KeyEnter, NUL)
BackspaceEvent == Event("KEY_PRESS", KeyBackspace2, DEL)

\* C5: in Insert mode, with the column within the line, Enter followed at
\* once by Backspace (both handled to the end) restores the buffer and the
\* cursor.
C5_SplitMergeRoundTrip ==
    (/\ FullyProcessed
     /\ currentMode = MODE_INSERT
     /\ cursorPos.X <= Len(CurrentLine)
     /\ Len(dataBuffer) < MaxLines)
    => \A e0 \in {Ed} :
         \A e1 \in {HandleUserActions(e0, EnterEvent, TRUE)} :
           \A e2 \in {HandleUserActions(e1, BackspaceEvent, TRUE)} :
              (e1.proc = RUNNING /\ e2.proc = RUNNING) =>
                  (e2.dataBuffer = dataBuffer /\ e2.cursorPos = cursorPos)

\* the buffer that merging line y into line y-1 must give
MergeExpected(buf, y) ==
    SubSeq(buf, 1, y - 1) \o <<buf[y] \o buf[y + 1]>> \o SubSeq(buf, y + 2, Len(buf))

BackspaceAtLineStart ==
    /\ currentMode = MODE_INSERT
    /\ cursorPos.X = 0
    /\ cursorPos.Y >= 1
    /\ IsBackspace(lastEvent')

\* C6: Backspace in Insert mode at (row, 0), row >= 1, appends line[row] to
\* line[row-1], removes line[row], keeps the other lines, and puts the cursor
\* at (row-1, length of the old line[row-1]).
C6_BackspaceMergesLines ==
    [][BackspaceAtLineStart =>
          /\ dataBuffer' = MergeExpected(dataBuffer, cursorPos.Y)
          /\ cursorPos' = [X |-> Len(dataBuffer[cursorPos.Y]),
                           Y |-> cursorPos.Y - 1]]_vars

\* C6 witness: ["a","b"] with the cursor at (1,0) became ["ab"] with the
\* cursor at (0,1); a deletion cannot leave MaxChars characters.
C6_Witness ==
    /\ currentMode = MODE_INSERT
    /\ IsBackspace(lastEvent)
    /\ CountChars(dataBuffer) = MaxChars
    /\ cursorPos.X >= 1
    /\ cursorPos.X < Len(CurrentLine)
    /\ CurrentLine[cursorPos.X] # CurrentLine[cursorPos.X + 1]

\* the reference string operations
RefInsert(str, x, ch) ==
    [k \in 1..(Len(str) + 1) |->
        IF k <= x THEN str[k] ELSE IF k = x + 1 THEN ch ELSE str[k - 1]]

RefDelete(str, x) ==
    [k \in 1..(Len(str) - 1) |-> IF k < x THEN str[k] ELSE str[k + 1]]

InLine == currentMode = MODE_INSERT /\ cursorPos.X <= Len(CurrentLine)

\* C7: in Insert mode, with the column within the line, a character key
\* inserts the character at the column of a reference string and advances
\* the column, Backspace at column >= 1 deletes the character before the
\* column and retreats, Left and Right move the column by one within
\* [0, length]; the row and every other line stay as they were.
C7_RowTracksReferenceString ==
    [][InLine =>
          /\ (IsRune(lastEvent') /\ lastEvent'.Rune # NUL) =>
                /\ dataBuffer' = [dataBuffer EXCEPT ![cursorPos.Y + 1] =
                                     RefInsert(@, cursorPos.X, lastEvent'.Rune)]
                /\ cursorPos' = [cursorPos EXCEPT !.X = @ + 1]
          /\ (IsBackspace(lastEvent') /\ cursorPos.X >= 1) =>
                /\ dataBuffer' = [dataBuffer EXCEPT ![cursorPos.Y + 1] =
                                     RefDelete(@, cursorPos.X)]
                /\ cursorPos' = [cursorPos EXCEPT !.X = @ - 1]
          /\ lastEvent'.Value = KeyLeft =>
                /\ dataBuffer' = dataBuffer
                /\ cursorPos' = [cursorPos EXCEPT !.X = Max(@ - 1, 0)]
          /\ lastEvent'.Value = KeyRight =>
                /\ dataBuffer' = dataBuffer
                /\ cursorPos' = [cursorPos EXCEPT
                                    !.X = Min(@ + 1, Len(CurrentLine))]]_vars

\* C7 witness: a character was typed in front of another one, on a row other
\* than the first
C7_Witness ==
    /\ currentMode = MODE_INSERT
    /\ IsRune(lastEvent)
    /\ cursorPos.Y >= 1
    /\ cursorPos.X = 1
    /\ Len(CurrentLine) = 2
    /\ CurrentLine[1] = lastEvent.Rune
    /\ CurrentLine[2] # lastEvent.Rune
    /\ CountChars(dataBuffer) = Len(CurrentLine)

ExecutesCommand(cmd) ==
    /\ currentMode = MODE_COMMAND_LINE
    /\ currentCommand = cmd
    /\ IsEnter(lastEvent')

\* C8: ':q' with the dirty flag set does not exit: it sets the status
\* message to the unsaved-changes message, keeps buffer and cursor and
\* returns to Normal mode; ':q' with the flag clear exits; ':q!' exits.
C8_QuitGuard ==
    [][/\ (ExecutesCommand(<<":", "q">>) /\ isDirty) =>
              /\ proc' = RUNNING
              /\ statusMessage' = E37
              /\ dataBuffer' = dataBuffer
              /\ cursorPos' = cursorPos
              /\ currentMode' = MODE_NORMAL
       /\ (ExecutesCommand(<<":", "q">>) /\ ~isDirty) => proc' = EXITED
       /\ ExecutesCommand(<<":", "q", "!">>) => proc' = EXITED]_vars

\* C8 witness: ':q' was refused on a dirty buffer
C8_Witness ==
    /\ proc = RUNNING
    /\ isDirty
    /\ IsEnter(lastEvent)
    /\ currentMode = MODE_NORMAL
    /\ statusMessage = E37

\* the session ended in the write-and-quit case of runCommand
ExitedByWriteQuit ==
    /\ proc = EXITED
    /\ currentCommand \in {<<":", "w", "q">>, <<":", "x">>}

\* C9: write-and-quit on a dirty buffer exits only after the save succeeded;
\* when the write fails the session does not exit.
C9_FailedSaveBlocksQuit ==
    (ExitedByWriteQuit /\ isDirty) => writeResult = "success"

\* C10: the displayed frame has at most height-1 rows and every row, from
\* row 0 to the last, has exactly width cells.
C10_FrameIsRectangular ==
    FullyProcessed =>
        /\ Len(textFrame) <= ScreenDim.Y - 1
        /\ \A k \in 1..Len(textFrame) : Len(textFrame[k]) = ScreenDim.X

\* C11: in every reachable state whose window starts inside the buffer,
\* rendering from firstLineInFrame places no character on a physical row
\* index >= height-1 (an index past the frame's last row stops the process).
C11_RenderStaysInFrame ==
    firstLineInFrame < Len(dataBuffer) => ~fillTextFrameFromTop(Ed).panic

RightPressed ==
    /\ currentMode \in {MODE_NORMAL, MODE_INSERT}
    /\ lastEvent'.Kind = "KEY_PRESS"
    /\ lastEvent'.Value = KeyRight

\* C12: Right from column c on a line of length L leaves the row and the
\* buffer unchanged and sets the column to min(c+1, max(0, L-1)) in Normal
\* mode and to min(c+1, L) in Insert mode.
C12_RightClamps ==
    [][RightPressed =>
          /\ dataBuffer' = dataBuffer
          /\ cursorPos'.Y = cursorPos.Y
          /\ currentMode = MODE_NORMAL =>
                cursorPos'.X = Min(cursorPos.X + 1, Max(0, Len(CurrentLine) - 1))
          /\ currentMode = MODE_INSERT =>
                cursorPos'.X = Min(cursorPos.X + 1, Len(CurrentLine))]_vars

\* C12 witness: Right was pressed in Normal mode on the last character of a
\* line (a line of one character keeps the cursor at column 0)
C12_Witness ==
    /\ FullyProcessed
    /\ currentMode = MODE_NORMAL
    /\ lastEvent.Value = KeyRight
    /\ Len(CurrentLine) = 1
    /\ cursorPos.X = 0

\* the command line holds ':' followed by at least one digit, and Enter is
\* pressed
NumericGoto ==
    /\ currentMode = MODE_COMMAND_LINE
    /\ IsEnter(lastEvent')
    /\ Len(currentCommand) >= 2
    /\ currentCommand[1] = ":"
    /\ \A k \in 2..Len(currentCommand) : currentCommand[k] \in DigitRunes

GPressed ==
    /\ currentMode = MODE_NORMAL
    /\ IsRune(lastEvent')
    /\ lastEvent'.Rune = "G"

\* min(max(N, 1), count) for the number N the digits write; a number of more
\* than 9 significant digits is above every line count
ClampedLineNumber(digits, count) ==
    IF Len(StripZeros(digits)) > 9 THEN count
    ELSE Min(Max(DigitsVal(StripZeros(digits)), 1), count)

\* C13: ':N' with N a string of digits sets the cursor row to
\* min(max(N, 1), lineCount) - 1 and 'G' sets it to lineCount - 1; both leave
\* the buffer and the dirty flag unchanged and, when the handler runs to its
\* end, the mode is Normal.
C13_GotoLine ==
    [][/\ NumericGoto =>
            /\ cursorPos'.Y = ClampedLineNumber(Tail(currentCommand), LineCount) - 1
            /\ dataBuffer' = dataBuffer
            /\ isDirty' = isDirty
            /\ proc' = RUNNING => currentMode' = MODE_NORMAL
       /\ GPressed =>
            /\ cursorPos'.Y = LineCount - 1
            /\ dataBuffer' = dataBuffer
            /\ isDirty' = isDirty
            /\ proc' = RUNNING => currentMode' = MODE_NORMAL]_vars

\* the transitions of the mode, from the mode before the event to the mode
\* after it
ListedTransition ==
    \/ /\ currentMode = MODE_NORMAL
       /\ IsRune(lastEvent') /\ lastEvent'.Rune \in {"i", "A"}
       /\ currentMode' = MODE_INSERT
    \/ /\ currentMode = MODE_NORMAL
       /\ IsRune(lastEvent') /\ lastEvent'.Rune = ":"
       /\ currentMode' = MODE_COMMAND_LINE
    \/ /\ currentMode = MODE_INSERT
       /\ lastEvent'.Kind = "KEY_PRESS" /\ lastEvent'.Value = KeyEscape
       /\ currentMode' = MODE_NORMAL
    \/ /\ currentMode = MODE_COMMAND_LINE
       /\ lastEvent'.Kind = "KEY_PRESS" /\ lastEvent'.Value = KeyEscape
       /\ currentMode' = MODE_NORMAL
       /\ currentCommand' = <<>>
    \/ /\ currentMode = MODE_COMMAND_LINE
       /\ IsEnter(lastEvent')
       /\ currentMode' = MODE_NORMAL

\* the event is one that a listed transition starts from
TransitionKey ==
    \/ /\ currentMode = MODE_NORMAL
       /\ IsRune(lastEvent') /\ lastEvent'.Rune \in {"i", "A", ":"}
    \/ /\ currentMode \in {MODE_INSERT, MODE_COMMAND_LINE}
       /\ lastEvent'.Kind = "KEY_PRESS" /\ lastEvent'.Value = KeyEscape
    \/ /\ currentMode = MODE_COMMAND_LINE
       /\ IsEnter(lastEvent')
       /\ proc' = RUNNING

\* C14: the mode starts as Normal; it changes only by the listed
\* transitions; each listed key makes its transition (Enter in CommandLine
\* mode when the session goes on after the command); every other event
\* leaves the mode unchanged.
C14_ModeTransitions ==
    /\ currentMode = MODE_NORMAL
    /\ [][/\ currentMode' # currentMode => ListedTransition
          /\ TransitionKey => ListedTransition
          /\ ~TransitionKey => currentMode' = currentMode]_vars

\* C14 witness: Enter in CommandLine mode executed a goto to the second line
\* and the mode is Normal again
C14_Witness ==
    /\ FullyProcessed
    /\ IsEnter(lastEvent)
    /\ currentMode = MODE_NORMAL
    /\ currentCommand = <<>>
    /\ cursorPos.Y = 1

\* the name reached from n after k links, NoName once a name has no link
RECURSIVE Follow(_, _, _)
Follow(th, n, k) ==
    IF k = 0 THEN n
    ELSE Bind(Follow(th, n, k - 1), LAMBDA prev :
             IF prev \in DOMAIN th.Links THEN th.Links[prev] ELSE NoName)

\* following links from n reaches, after k links, a name defined in Groups,
\* and none of the names before it is defined, unlinked or met twice
ReachesGroupAt(th, n, k) ==
    /\ Follow(th, n, k) \in DOMAIN th.Groups
    /\ \A j \in 0..(k - 1) :
          /\ Follow(th, n, j) \notin DOMAIN th.Groups
          /\ Follow(th, n, j) \in DOMAIN th.Links
    /\ \A i, j \in 0..k : i # j => Follow(th, n, i) # Follow(th, n, j)

ResolveReturned == pcResolve = "returned"

\* C15: ResolveGroup terminates; it marks each name at most once; it returns
\* (style, true) exactly when following links from the name reaches a name
\* defined in Groups before a name with no link or a name already visited,
\* the style being that of the name reached, and unresolved otherwise.
C15_ResolveGroupTerminates ==
    /\ <>ResolveReturned
    /\ [](\A i, j \in 1..Len(visits) : i # j => visits[i] # visits[j])
    /\ [](ResolveReturned =>
            IF ~t.isNil /\ \E k \in 0..MaxNames : ReachesGroupAt(t, name, k)
            THEN /\ resolved.ok
                 /\ \E k \in 0..MaxNames :
                       /\ ReachesGroupAt(t, name, k)
                       /\ resolved.hl = t.Groups[Follow(t, name, k)]
            ELSE resolved = [hl |-> "zero", ok |-> FALSE])

\* C15 witness: a call returned unresolved after it followed a cycle of links
\* through every name
C15_Witness ==
    /\ ResolveReturned
    /\ ~resolved.ok
    /\ Len(visits) = MaxNames
    /\ cur \in DOMAIN t.Links

\* the window was rendered from a first line inside the buffer
Rendered ==
    /\ FullyProcessed
    /\ firstLineInFrame < Len(dataBuffer)
    /\ ~fillTextFrameFromTop(Ed).panic

CeilDiv(a, b) == (a + b - 1) \div b

\* C16: in the rendered frame a visible line of length L that is followed by
\* another visible line occupies max(1, ceil(L/width)) physical rows: the
\* next line starts that many rows below it.
C16_RowsPerLine ==
    Rendered =>
        \A i \in firstLineInFrame..(lastLineInFrame - 1) :
            StartRow(dataBuffer, firstLineInFrame, i + 1, ScreenDim.X)
              - StartRow(dataBuffer, firstLineInFrame, i, ScreenDim.X)
            = Max(1, CeilDiv(Len(dataBuffer[i + 1]), ScreenDim.X))

\* C17: for a cursor at column c of its line, c in [0, len(line)], with the
\* line's first physical row at y0, syncCursor computes x = c mod width and
\* y = y0 + (c div width).
C17_CursorScreenPosition ==
    (/\ FullyProcessed
     /\ firstLineInFrame <= cursorPos.Y
     /\ cursorPos.X <= Len(CurrentLine))
    => CursorPosScreen(Ed) =
          [X |-> cursorPos.X % ScreenDim.X,
           Y |-> StartRow(dataBuffer, firstLineInFrame, cursorPos.Y, ScreenDim.X)
                 + (cursorPos.X \div ScreenDim.X)]

\* the last physical row of the last visible line
LastOccupiedRow ==
    StartRow(dataBuffer, firstLineInFrame, lastLineInFrame, ScreenDim.X)
      + Max(1, CeilDiv(Len(dataBuffer[lastLineInFrame + 1]), ScreenDim.X)) - 1

\* row r of the displayed frame begins with the fill glyph
HasFillGlyph(r) == textFrame[r + 1] # NilRow /\ textFrame[r + 1][1] = "~"

\* C18: a physical row of the rendered frame carries the leading '~' if and
\* only if it lies below the rows of the visible lines
\* [firstLineInFrame, lastLineInFrame]; a row of a logical line, empty or
\* not, carries none.
C18_FillGlyphBelowContent ==
    Rendered =>
        \A r \in 0..(Len(textFrame) - 1) :
            HasFillGlyph(r) <=> r > LastOccupiedRow

\* C19: after every fully processed key event the screen position computed
\* by syncCursor lies inside the usable grid: 0 <= x < width and
\* 0 <= y < height-1.
C19_CursorInsideGrid ==
    FullyProcessed =>
        /\ 0 <= cursorPosScreen.X /\ cursorPosScreen.X < ScreenDim.X
        /\ 0 <= cursorPosScreen.Y /\ cursorPosScreen.Y < ScreenDim.Y - 1

\* C20: whenever the buffer differs from the content present at session
\* start the dirty flag is set, and ':q' never exits while it does.  Stated
\* by induction over the steps: the session starts with the loaded content
\* and the flag clear; every step that changes the buffer leaves the flag
\* set; the flag, once set, stays set; and ':q' exits only with the flag
\* clear.
C20_DirtyCoversChanges ==
    /\ ~isDirty
    /\ [][dataBuffer' # dataBuffer => isDirty']_vars
    /\ [][isDirty => isDirty']_vars
    /\ [][(ExecutesCommand(<<":", "q">>) /\ proc' = EXITED) => ~isDirty]_vars

\* C20 witness: a character was typed into the buffer and the flag is set
C20_Witness ==
    /\ FullyProcessed
    /\ currentMode = MODE_INSERT
    /\ IsRune(lastEvent)
    /\ lastEvent.Rune \in TextRunes
    /\ CountChars(dataBuffer) >= 1
    /\ isDirty

\* C21: whenever the mode is CommandLine the accumulated command string is
\* non-empty and begins with ':', so Backspace and Enter never meet an empty
\* command string.
C21_CommandBeginsWithColon ==
    currentMode = MODE_COMMAND_LINE =>
        /\ currentCommand # <<>>
        /\ currentCommand[1] = ":"

====
